---- MODULE Spec2Model ----
(***************************************************************************)
(* Download job engine of burping-slugs: the job registry and background   *)
(* units of url_downloader.start_download, the resolver download_url with  *)
(* its file-backed cache index, and the multi-job progress stream of       *)
(* app.download_progress.                                                  *)
(*                                                                         *)
(* Durations are in tenths of a second, progress in whole percent.         *)
(* An optional value is a sequence: <<>> for None, <<x>> for a value x.    *)
(***************************************************************************)
EXTENDS Integers, Sequences, FiniteSets, TLC

\* ----------------------------------------------------------------- bounds
MaxJobs == 2
MaxChunks == 2
MaxHooks == 2

\* ------------------------------------------------------ program constants
\* 1.0 second, in tenths of a second
MIN_DURATION_SECONDS == 10

PENDING == "pending"
DOWNLOADING == "downloading"
PROCESSING == "processing"
COMPLETE == "complete"
FAILED == "failed"

JobStatus == {PENDING, DOWNLOADING, PROCESSING, COMPLETE, FAILED}
Terminal == {COMPLETE, FAILED}

None == <<>>
Some(x) == <<x>>

JobIds == 1..MaxJobs
\* an id that start_download never handed out
UnknownId == MaxJobs + 1

\* ------------------------------------------------------------------- URLs
\* A URL is [host, path, utm]: utm is the value of a tracking parameter
\* (0: the parameter is absent).
AudioUrl == [host |-> "audio.example", path |-> "song", utm |-> 0]
VideoUrl == [host |-> "youtube.com", path |-> "clip", utm |-> 0]
Urls == {AudioUrl, VideoUrl}

\* the audio URL with a tracking parameter, under two values of it
AudioUrlA == [AudioUrl EXCEPT !.utm = 1]
AudioUrlB == [AudioUrl EXCEPT !.utm = 2]
\* a page of a site the classifier does not know
PageUrl == [host |-> "blog.example", path |-> "post", utm |-> 0]
\* the short form of the video URL
ShortUrl == [host |-> "youtu.be", path |-> "clip", utm |-> 0]
VariantUrls == {AudioUrlA, AudioUrlB, PageUrl, ShortUrl}
AllUrls == Urls \cup VariantUrls

normalize_url(url) ==
    [host |-> IF url.host \in {"youtu.be", "www.youtu.be", "www.youtube.com"}
              THEN "youtube.com" ELSE url.host,
     path |-> url.path]

\* the digest of the URL as it was given
url_hash_raw(url) == <<"sha256", url.host, url.path, url.utm>>

\* the digest is taken to be injective on normalized URLs
url_hash(url) == <<"sha256", normalize_url(url).host, normalize_url(url).path>>

is_youtube(url) == url.host \in {"youtube.com", "youtu.be", "www.youtube.com", "www.youtu.be"}

\* the classifier of the transformer library: a local heuristic on the URL
is_audio_url(url) == url.host = "audio.example"

_title_from_url(url) == <<"FromUrl", url.path>>

Keys == {url_hash(u) : u \in AllUrls}

\* extensions probed after the extractor returned, in the code's order
Exts == <<"mp3", "m4a">>
\* ".part" is the extractor's own temporary file
AllFiles == {<<k, e>> : k \in Keys, e \in {"mp3", "m4a", "part"}}

\* what the transformer can do for a URL: it raises, returns an empty value,
\* returns its input, or returns another link, whose path ends in ".m4a"
TransformOutcomes == {"raise", "empty", "same", "m4a"}
\* content-length announced by the server (0: header absent)
Totals == {0, 2}
\* the duration probe: absent, or the duration it measured
ProbeResults == {None, Some(5), Some(10)}
\* the "duration" field of the extractor's info: absent, null, 0 or a value
InfoDurations == {None, Some(0), Some(5), Some(10)}
PageTitles == {None, Some(<<"Page">>)}
InfoTitles == {None, Some(<<"Video">>)}
\* what the extractor passes to progress_hook while it transfers:
\* downloaded_bytes, and total_bytes or its estimate (0: neither is known)
HookDownloaded == {1, 3}
HookTotals == {0, 2}

\* ------------------------------------------------------------------ state
VARIABLES
    request,    \* POST /download being served: the URLs not yet handed to start_download
    jobs,       \* the DownloadJob objects, by id (an object outlives its registry slot)
    registry,   \* keys of _jobs
    nextId,     \* number of ids handed out so far, plus one
    t,          \* per background unit: position in run/download_url and its locals
    indexFile,  \* content of index.json: None when the file does not exist
    files,      \* cache directory: file name -> "absent" | "partial" | "full"
    tracks,     \* app.tracks
    playlistFile, \* the track list save_playlist wrote last
    handler,    \* the reorder request being served: its position and new_tracks
    stream,     \* the generator of download_progress
    lastEvent,  \* per id the stream has dropped: status of the last update event for it
    doneCount,  \* number of "complete" events the stream emitted
    lateUpdate, \* the stream emitted an update event after its "complete" event
    hist        \* per job: the distinct status values it has taken, in order

vars == <<request, jobs, registry, nextId, t, indexFile, files, tracks, stream,
          lastEvent, doneCount, lateUpdate, hist, playlistFile, handler>>

EmptyIndex == [k \in {} |-> None]

NewJob(url) ==
    [url |-> url, status |-> PENDING, progress |-> 0, message |-> <<"">>,
     result |-> None, error |-> None]

NoJob == [url |-> AudioUrl, status |-> "unborn", progress |-> 0, message |-> <<"">>,
          result |-> None, error |-> None]

\* locals of run and download_url; the last eight fields record what the unit
\* has done: collaborators called, files created, index saved, cache hit, stale
\* entry evicted, duration found below the minimum, calls of on_complete, and
\* whether run ended by an exception nothing caught
IdleUnit ==
    [pc |-> "unborn", index |-> EmptyIndex, direct_url |-> None, out |-> None,
     total |-> 0, downloaded |-> 0, hooks |-> 0, duration |-> 0, title |-> None,
     result |-> None, exc |-> None,
     calls |-> {}, created |-> {}, saved |-> FALSE, hit |-> FALSE, evicted |-> FALSE,
     short |-> FALSE, callbacks |-> 0, uncaught |-> FALSE]

IdleHandler == [pc |-> "idle", new_tracks |-> <<>>]

\* snap: the status shown by the update event just emitted for cur.
\* prev: for the ids whose events are recorded, the fields of the update event
\* last emitted; stale: an update event repeated the one emitted before it for
\* the same id
IdleStream ==
    [pc |-> "idle", ids |-> {}, pending |-> {}, todo |-> {}, cur |-> UnknownId,
     snap |-> "none", prev |-> [i \in {} |-> None], stale |-> FALSE]

\* a stream whose update events are recorded for every job
RecordingStream == [IdleStream EXCEPT !.prev = [i \in JobIds |-> None]]

\* ---------------------------------------------------------- cache index
\* A document of index.json is <<index>> when it is a JSON object, and carries
\* a second component when it is not: "invalid" for a file that cannot be read
\* or parsed, "null" for valid JSON that is no object (null, a number).
InvalidJson == <<EmptyIndex, "invalid">>
NotAnObject == <<EmptyIndex, "null">>
Malformed(file, how) == Len(file) > Len(Some(EmptyIndex)) /\ file[Len(file)] = how

load_cache_index(file) ==
    IF file = None \/ Malformed(file, "invalid") THEN EmptyIndex ELSE file[1]

TypeError == <<"TypeError">>
KeyError == <<"KeyError">>

\* the exception get_cached raises on a document, None when it raises none:
\* the membership test on a value that is no container, or the subscript of
\* an entry that lacks the field
LookupError(url, file) ==
    LET index == load_cache_index(file)
        key == url_hash(url)
    IN  IF Malformed(file, "null") THEN Some(TypeError)
        ELSE IF key \in DOMAIN index /\ "filename" \notin DOMAIN index[key]
        THEN Some(KeyError)
        ELSE None

\* the eviction that starts a new index instead of deleting one key
IndexWithout_all(index, key) == [k \in {} |-> index[key]]

IndexWithout(index, key) == [k \in DOMAIN index \ {key} |-> index[k]]

\* the store that starts a new index holding the new entry alone
IndexWith_only(index, key, entry) == [k \in {key} |-> entry]

IndexWith(index, key, entry) ==
    [k \in DOMAIN index \cup {key} |-> IF k = key THEN entry ELSE index[k]]

CacheEntry(url, title, duration, filename) ==
    [url |-> url, title |-> title, duration |-> duration, filename |-> filename]

DownloadResult(filepath, title, duration, source_url) ==
    [filepath |-> filepath, title |-> title, duration |-> duration,
     source_url |-> source_url]

\* a cached result built without the entry's duration
ResultOfEntry_no_duration(entry) ==
    DownloadResult(entry.filename, entry.title, 0, entry.url)

ResultOfEntry(entry) ==
    DownloadResult(entry.filename, entry.title, entry.duration, entry.url)

exists(fs, f) == fs[f] # "absent"

\* get_cached as a function of the index document and the directory: the
\* value it returns
get_cached(url, file, fs) ==
    LET index == load_cache_index(file)
        key == url_hash(url)
    IN  IF key \notin DOMAIN index THEN None
        ELSE IF ~exists(fs, index[key].filename) THEN None
        ELSE Some(ResultOfEntry(index[key]))

\* ----------------------------------------------------- caches at startup
NoFiles == [f \in AllFiles |-> "absent"]

\* left by an earlier run: an entry for the video URL whose file is there,
\* and one for the audio URL whose file has been deleted since
OldIndex ==
    [k \in {url_hash(AudioUrl), url_hash(VideoUrl)} |->
        IF k = url_hash(AudioUrl)
        THEN CacheEntry(AudioUrl, <<"Old">>, 10, <<k, "m4a">>)
        ELSE CacheEntry(VideoUrl, <<"Old">>, 10, <<k, "mp3">>)]

OldFiles == [NoFiles EXCEPT ![<<url_hash(VideoUrl), "mp3">>] = "full"]

OldCache == <<Some(OldIndex), OldFiles>>
InitCaches == {<<None, NoFiles>>, OldCache}

\* the texts posted to /download, as the URL lists parse_urls finds in them
Requests == [1..MaxJobs -> Urls]
MixedRequest == [i \in 1..MaxJobs |-> IF i = 1 THEN AudioUrl ELSE VideoUrl]

InitState(requests, caches, str) ==
    /\ request \in requests
    /\ \E c \in caches : indexFile = c[1] /\ files = c[2]
    /\ jobs = [j \in JobIds |-> NoJob]
    /\ registry = {}
    /\ nextId = 1
    /\ t = [j \in JobIds |-> IdleUnit]
    /\ tracks = <<>>
    /\ playlistFile = <<>>
    /\ handler = IdleHandler
    /\ stream = str
    /\ lastEvent = [i \in JobIds \cup {UnknownId} |-> "none"]
    /\ doneCount = 0
    /\ lateUpdate = FALSE
    /\ hist = [j \in JobIds |-> <<>>]

InitWith(requests, caches) == InitState(requests, caches, IdleStream)

Init == InitWith({MixedRequest}, {OldCache})

\* an index whose entry for the audio URL lacks the file name
BrokenIndex ==
    [k \in {url_hash(AudioUrl)} |->
        [url |-> AudioUrl, title |-> <<"Old">>, duration |-> MIN_DURATION_SECONDS]]

CorruptCaches ==
    {<<InvalidJson, NoFiles>>, <<NotAnObject, NoFiles>>, <<Some(BrokenIndex), NoFiles>>}
InitCorrupt == InitWith(Requests, CorruptCaches)

\* requests made of the URL variants
VariantRequests == [1..MaxJobs -> VariantUrls]
InitVariants == InitWith(VariantRequests, InitCaches)

InitResolve == InitWith(Requests, InitCaches)

InitPoll == InitState({MixedRequest}, {OldCache}, RecordingStream)


\* --------------------------------------------------------------- helpers
\* write a job's fields, recording a change of its status
SetJob(j, rec) ==
    /\ jobs' = [jobs EXCEPT ![j] = rec]
    /\ hist' = [hist EXCEPT ![j] =
                   IF rec.status = jobs[j].status THEN @ ELSE Append(@, rec.status)]

SetUnit(j, rec) == t' = [t EXCEPT ![j] = rec]

\* on_progress with the status following the percentage in both directions
on_progress_resets(job, percent, message) ==
    [job EXCEPT !.progress = percent,
                !.message = message,
                !.status = IF percent >= 100 THEN PROCESSING ELSE DOWNLOADING]

\* the closure on_progress of start_download.run
on_progress(job, percent, message) ==
    [job EXCEPT !.progress = percent,
                !.message = message,
                !.status = IF percent >= 100 THEN PROCESSING ELSE @]

\* an error of the direct strategy handled by going on to the extractor
Raise_falls_back(unit, what) ==
    IF "fetch" \in unit.calls
    THEN [unit EXCEPT !.pc = "f_hook", !.index = EmptyIndex,
                      !.out = None, !.total = 0, !.downloaded = 0, !.hooks = 0,
                      !.duration = 0, !.title = None]
    ELSE [unit EXCEPT !.pc = "fail1", !.exc = Some(what), !.index = EmptyIndex,
                      !.out = None, !.total = 0, !.downloaded = 0, !.hooks = 0,
                      !.duration = 0, !.title = None]

\* an exception leaves download_url: control reaches the except clause of run
Raise(unit, what) ==
    [unit EXCEPT !.pc = "fail1", !.exc = Some(what), !.index = EmptyIndex,
                 !.out = None, !.total = 0, !.downloaded = 0, !.hooks = 0,
                 !.duration = 0, !.title = None]

TooShort == <<"Audio too short">>

cache_key(j) == url_hash(jobs[j].url)

Percent(downloaded, total) == (downloaded * 100) \div total

\* first candidate of the extension list that exists
RECURSIVE FindOutput(_, _, _)
FindOutput(fs, key, i) ==
    IF i > Len(Exts) THEN None
    ELSE IF exists(fs, <<key, Exts[i]>>) THEN Some(<<key, Exts[i]>>)
    ELSE FindOutput(fs, key, i + 1)

\* get_duration on a file of the cache directory
get_duration(fs, f) == IF exists(fs, f) THEN ProbeResults ELSE {None}

OrZero(opt) == IF opt = None THEN 0 ELSE opt[1]

\* the test that rejects a file as too short (the units record in their
\* field short whether the duration was below 1.0 second)
TooShortDuration(duration) == duration < MIN_DURATION_SECONDS

\* ----------------------------------------------------------- submission
\* the thread started, and run, before the job is put in the registry
start_download_started(url) ==
    /\ nextId <= MaxJobs
    /\ request # <<>>
    /\ url = Head(request)
    /\ request' = Tail(request)
    /\ SetJob(nextId, [NewJob(url) EXCEPT !.status = DOWNLOADING,
                                          !.message = <<"Starting download...">>])
    /\ registry' = registry \cup {nextId}
    /\ SetUnit(nextId, [IdleUnit EXCEPT !.pc = "gc_load"])
    /\ nextId' = nextId + 1
    /\ UNCHANGED <<indexFile, files, tracks, stream, lastEvent, doneCount, lateUpdate,
                   playlistFile, handler>>

\* start_download: a fresh id, the job in the registry, the thread started
start_download(url) ==
    /\ nextId <= MaxJobs
    /\ request # <<>>
    /\ url = Head(request)
    /\ request' = Tail(request)
    /\ SetJob(nextId, NewJob(url))
    /\ registry' = registry \cup {nextId}
    /\ SetUnit(nextId, [IdleUnit EXCEPT !.pc = "run"])
    /\ nextId' = nextId + 1
    /\ UNCHANGED <<indexFile, files, tracks, stream, lastEvent, doneCount, lateUpdate,
                   playlistFile, handler>>

\* ------------------------------------------------------ background unit
RunStart(j) ==
    /\ t[j].pc = "run"
    /\ SetJob(j, [jobs[j] EXCEPT !.status = DOWNLOADING,
                                 !.message = <<"Starting download...">>])
    /\ SetUnit(j, [t[j] EXCEPT !.pc = "gc_load"])
    /\ UNCHANGED <<request, registry, nextId, indexFile, files, tracks, stream,
                   lastEvent, doneCount, lateUpdate,
                   playlistFile, handler>>

\* get_cached, up to the test of the key
CacheLoad(j) ==
    /\ t[j].pc = "gc_load"
    /\ LET index == load_cache_index(indexFile)
       IN  SetUnit(j, IF LookupError(jobs[j].url, indexFile) = Some(TypeError)
                      THEN Raise(t[j], TypeError)
                      ELSE IF cache_key(j) \notin DOMAIN index
                      THEN [t[j] EXCEPT !.pc = "select"]
                      ELSE [t[j] EXCEPT !.pc = "gc_check", !.index = index])
    /\ UNCHANGED <<request, jobs, hist, registry, nextId, indexFile, files, tracks, stream,
                   lastEvent, doneCount, lateUpdate,
                   playlistFile, handler>>

\* get_cached, from the test of the file on
CacheCheck(j) ==
    /\ t[j].pc = "gc_check"
    /\ LET key == cache_key(j)
           entry == t[j].index[key]
       IN  IF "filename" \notin DOMAIN entry
           THEN /\ indexFile' = indexFile
                /\ SetUnit(j, Raise(t[j], KeyError))
           ELSE IF ~exists(files, entry.filename)
           THEN /\ indexFile' = Some(IndexWithout(t[j].index, key))
                /\ SetUnit(j, [t[j] EXCEPT !.pc = "select", !.index = EmptyIndex,
                                           !.evicted = TRUE])
           ELSE /\ indexFile' = indexFile
                /\ SetUnit(j, [t[j] EXCEPT !.pc = "hit", !.index = EmptyIndex,
                                           !.result = Some(ResultOfEntry(entry)),
                                           !.hit = TRUE])
    /\ UNCHANGED <<request, jobs, hist, registry, nextId, files, tracks, stream,
                   lastEvent, doneCount, lateUpdate,
                   playlistFile, handler>>

\* download_url on a cache hit: the report, and the return of the cached result
CacheHit(j) ==
    /\ t[j].pc = "hit"
    /\ SetJob(j, on_progress(jobs[j], 100, <<"Using cached", t[j].result[1].title>>))
    /\ SetUnit(j, [t[j] EXCEPT !.pc = "complete1"])
    /\ UNCHANGED <<request, registry, nextId, indexFile, files, tracks, stream,
                   lastEvent, doneCount, lateUpdate,
                   playlistFile, handler>>

\* download_url: the platform test, the classifier and the transformer
Select(j) ==
    /\ t[j].pc = "select"
    /\ LET url == jobs[j].url
       IN  IF is_youtube(url)
           THEN /\ SetUnit(j, [t[j] EXCEPT !.pc = "branch"])
                /\ UNCHANGED <<jobs, hist,
                   handler>>
           ELSE IF ~is_audio_url(url)
           THEN /\ SetUnit(j, [t[j] EXCEPT !.pc = "branch", !.calls = @ \cup {"classify"}])
                /\ UNCHANGED <<jobs, hist,
                   handler>>
           ELSE /\ SetJob(j, on_progress(jobs[j], 0, <<"Resolving audio URL...">>))
                /\ \E o \in TransformOutcomes :
                     SetUnit(j, [t[j] EXCEPT !.pc = "branch",
                                    !.calls = @ \cup {"classify", "transform"},
                                    !.direct_url = IF o = "raise" THEN None ELSE Some(o)])
    /\ UNCHANGED <<request, registry, nextId, indexFile, files, tracks, stream,
                   lastEvent, doneCount, lateUpdate,
                   playlistFile, handler>>

\* the extension of the output file: the suffix of the link's path, or mp3
Ext(link) == IF link = "m4a" THEN "m4a" ELSE "mp3"

\* the test that takes every non-empty link for a direct one
Branch_any(j) ==
    /\ t[j].pc = "branch"
    /\ LET direct_url == t[j].direct_url
       IN  SetUnit(j, IF direct_url # None /\ direct_url # Some("empty")
                      THEN [t[j] EXCEPT !.pc = "d_get", !.direct_url = None,
                               !.out = Some(<<cache_key(j), Ext(direct_url[1])>>)]
                      ELSE [t[j] EXCEPT !.pc = "f_hook", !.direct_url = None])
    /\ UNCHANGED <<request, jobs, hist, registry, nextId, indexFile, files, tracks, stream,
                   lastEvent, doneCount, lateUpdate,
                   playlistFile, handler>>

\* download_url: the direct strategy when the transformer gave another link,
\* the fallback otherwise
Branch(j) ==
    /\ t[j].pc = "branch"
    /\ LET direct_url == t[j].direct_url
       IN  SetUnit(j, IF direct_url # None /\ direct_url # Some("empty")
                         /\ direct_url # Some("same")
                      THEN [t[j] EXCEPT !.pc = "d_get", !.direct_url = None,
                               !.out = Some(<<cache_key(j), Ext(direct_url[1])>>)]
                      ELSE [t[j] EXCEPT !.pc = "f_hook", !.direct_url = None])
    /\ UNCHANGED <<request, jobs, hist, registry, nextId, indexFile, files, tracks, stream,
                   lastEvent, doneCount, lateUpdate,
                   playlistFile, handler>>

\* _download_direct_url: the request and the opening of the output file
DirectGet(j) ==
    /\ t[j].pc = "d_get"
    /\ \/ /\ SetUnit(j, Raise([t[j] EXCEPT !.calls = @ \cup {"fetch"}], <<"HTTP error">>))
          /\ UNCHANGED files
       \/ \E total \in Totals :
          /\ SetUnit(j, [t[j] EXCEPT !.pc = "d_chunk", !.calls = @ \cup {"fetch"},
                                     !.total = total, !.downloaded = 0,
                                     !.created = @ \cup {t[j].out[1]}])
          /\ files' = [files EXCEPT ![t[j].out[1]] = "partial"]
    /\ UNCHANGED <<request, jobs, hist, registry, nextId, indexFile, tracks, stream,
                   lastEvent, doneCount, lateUpdate,
                   playlistFile, handler>>

\* _download_direct_url: one turn of the chunk loop, its end, or an error
\* of the stream
DirectChunk(j) ==
    /\ t[j].pc = "d_chunk"
    /\ \/ /\ t[j].downloaded < MaxChunks
          /\ LET downloaded == t[j].downloaded + 1
                 percent == Percent(downloaded, t[j].total)
             IN  /\ SetUnit(j, [t[j] EXCEPT !.downloaded = downloaded])
                 /\ IF t[j].total > 0
                    THEN SetJob(j, on_progress(jobs[j], percent, <<"Downloading", percent>>))
                    ELSE UNCHANGED <<jobs, hist,
                   handler>>
          /\ UNCHANGED files
       \/ /\ SetUnit(j, Raise([t[j] EXCEPT !.total = 0, !.downloaded = 0],
                              <<"stream error">>))
          /\ UNCHANGED <<jobs, hist, files,
                   handler>>
       \/ /\ SetUnit(j, [t[j] EXCEPT !.pc = "d_probe", !.total = 0, !.downloaded = 0])
          /\ SetJob(j, on_progress(jobs[j], 100, <<"Download complete">>))
          /\ files' = [files EXCEPT ![t[j].out[1]] =
                          IF @ = "absent" THEN "absent" ELSE "full"]
    /\ UNCHANGED <<request, registry, nextId, indexFile, tracks, stream,
                   lastEvent, doneCount, lateUpdate,
                   playlistFile, handler>>

\* download_url, direct strategy: the duration, the title, the index loaded
DirectProbe(j) ==
    /\ t[j].pc = "d_probe"
    /\ \E d \in get_duration(files, t[j].out[1]), pt \in PageTitles :
         LET duration == OrZero(d)
         IN  SetUnit(j, IF TooShortDuration(duration)
                        THEN [t[j] EXCEPT !.pc = "unlink", !.short = duration < 10]
                        ELSE [t[j] EXCEPT !.pc = "st_save", !.duration = duration,
                                 !.short = duration < 10,
                                 !.calls = @ \cup {"title"},
                                 !.title = IF pt = None
                                           THEN Some(_title_from_url(jobs[j].url))
                                           ELSE pt,
                                 !.index = load_cache_index(indexFile)])
    /\ UNCHANGED <<request, jobs, hist, registry, nextId, indexFile, files, tracks, stream,
                   lastEvent, doneCount, lateUpdate,
                   playlistFile, handler>>

\* the rejection without the unlink
Unlink_keeps(j) ==
    /\ t[j].pc = "unlink"
    /\ SetUnit(j, [t[j] EXCEPT !.pc = "fail1", !.exc = Some(<<"Audio too short">>),
                               !.out = None])
    /\ UNCHANGED <<request, jobs, hist, registry, nextId, indexFile, files, tracks,
                   stream, lastEvent, doneCount, lateUpdate,
                   playlistFile, handler>>

\* download_url: a file that is too short is deleted and the error raised
Unlink(j) ==
    /\ t[j].pc = "unlink"
    /\ files' = [files EXCEPT ![t[j].out[1]] = "absent"]
    /\ SetUnit(j, Raise(t[j], TooShort))
    /\ UNCHANGED <<request, jobs, hist, registry, nextId, indexFile, tracks, stream,
                   lastEvent, doneCount, lateUpdate,
                   playlistFile, handler>>

\* the return of the result without the index being saved
StoreSave_skips(j) ==
    /\ t[j].pc = "st_save"
    /\ LET title == t[j].title[1]
       IN  /\ indexFile' = indexFile
           /\ SetJob(j, on_progress(jobs[j], 100, <<"Complete", title>>))
           /\ SetUnit(j, [t[j] EXCEPT !.pc = "complete1", !.index = EmptyIndex,
                                      !.out = None, !.title = None,
                                      !.duration = 0,
                                      !.result = Some(DownloadResult(t[j].out[1], title,
                                                        t[j].duration, jobs[j].url))])
    /\ UNCHANGED <<request, registry, nextId, files, tracks, stream,
                   lastEvent, doneCount, lateUpdate,
                   playlistFile, handler>>

\* download_url: the index saved with the new entry, the last report, return
StoreSave(j) ==
    /\ t[j].pc = "st_save"
    /\ LET title == t[j].title[1]
           entry == CacheEntry(jobs[j].url, title, t[j].duration, t[j].out[1])
       IN  /\ indexFile' = Some(IndexWith(t[j].index, cache_key(j), entry))
           /\ SetJob(j, on_progress(jobs[j], 100, <<"Complete", title>>))
           /\ SetUnit(j, [t[j] EXCEPT !.pc = "complete1", !.index = EmptyIndex,
                                      !.saved = TRUE, !.out = None, !.title = None,
                                      !.duration = 0,
                                      !.result = Some(DownloadResult(t[j].out[1], title,
                                                        t[j].duration, jobs[j].url))])
    /\ UNCHANGED <<request, registry, nextId, files, tracks, stream,
                   lastEvent, doneCount, lateUpdate,
                   playlistFile, handler>>

\* the extractor while it transfers: a call of progress_hook, or an error
ExtractHook(j) ==
    /\ t[j].pc = "f_hook"
    /\ LET part == <<cache_key(j), "part">>
       IN  \/ /\ t[j].hooks < MaxHooks
              /\ \E downloaded \in HookDownloaded, total \in HookTotals :
                   LET percent == IF total > 0 THEN Percent(downloaded, total) ELSE 0
                   IN  SetJob(j, on_progress(jobs[j], percent, <<"Downloading", percent>>))
              /\ SetUnit(j, [t[j] EXCEPT !.hooks = @ + 1, !.calls = @ \cup {"extract"},
                                         !.created = @ \cup {part}])
              /\ files' = [files EXCEPT ![part] = "partial"]
           \/ /\ SetJob(j, on_progress(jobs[j], 100, <<"Processing audio...">>))
              /\ SetUnit(j, [t[j] EXCEPT !.pc = "f_post", !.hooks = 0,
                                         !.calls = @ \cup {"extract"}])
              /\ UNCHANGED files
           \/ /\ SetUnit(j, Raise([t[j] EXCEPT !.hooks = 0, !.calls = @ \cup {"extract"}],
                                  <<"extractor error">>))
              /\ UNCHANGED <<jobs, hist, files,
                   handler>>
    /\ UNCHANGED <<request, registry, nextId, indexFile, tracks, stream,
                   lastEvent, doneCount, lateUpdate,
                   playlistFile, handler>>

\* the extractor after the transfer: conversion to mp3 and return, or an error
ExtractPost(j) ==
    /\ t[j].pc = "f_post"
    /\ LET key == cache_key(j)
       IN  \/ /\ \E it \in InfoTitles, d \in InfoDurations :
                   SetUnit(j, [t[j] EXCEPT !.pc = "f_find",
                                  !.title = IF it = None THEN Some(<<"Unknown">>) ELSE it,
                                  !.duration = OrZero(d),
                                  !.created = @ \cup {<<key, "mp3">>}])
              /\ files' = [files EXCEPT ![<<key, "part">>] = "absent",
                                        ![<<key, "mp3">>] = "full"]
           \/ /\ SetUnit(j, Raise(t[j], <<"extractor error">>))
              /\ UNCHANGED files
    /\ UNCHANGED <<request, jobs, hist, registry, nextId, indexFile, tracks, stream,
                   lastEvent, doneCount, lateUpdate,
                   playlistFile, handler>>

\* download_url, fallback strategy: the output file located, the duration,
\* the index loaded
ExtractFind(j) ==
    /\ t[j].pc = "f_find"
    /\ LET output_file == FindOutput(files, cache_key(j), 1)
       IN  IF output_file = None
           THEN SetUnit(j, Raise(t[j], <<"output file not found">>))
           ELSE \E d \in get_duration(files, output_file[1]) :
                  LET duration == IF t[j].duration = 0 THEN OrZero(d) ELSE t[j].duration
                  IN  SetUnit(j, IF TooShortDuration(duration)
                                 THEN [t[j] EXCEPT !.pc = "unlink", !.out = output_file,
                                                   !.duration = 0, !.title = None,
                                                   !.short = duration < 10]
                                 ELSE [t[j] EXCEPT !.pc = "st_save", !.out = output_file,
                                                   !.duration = duration,
                                                   !.short = duration < 10,
                                                   !.index = load_cache_index(indexFile)])
    /\ UNCHANGED <<request, jobs, hist, registry, nextId, indexFile, files, tracks, stream,
                   lastEvent, doneCount, lateUpdate,
                   playlistFile, handler>>

\* the status written together with the other fields and the track, in one step
Complete1_atomic(j) ==
    /\ t[j].pc = "complete1"
    /\ SetJob(j, [jobs[j] EXCEPT !.status = COMPLETE, !.progress = 100,
                                 !.result = t[j].result,
                                 !.message = <<"Complete", t[j].result[1].title>>])
    /\ tracks' = Append(tracks, [id |-> j, name |-> t[j].result[1].title,
                                 duration |-> t[j].result[1].duration,
                                 source_url |-> t[j].result[1].source_url])
    /\ playlistFile' = tracks'
    /\ SetUnit(j, [t[j] EXCEPT !.pc = "done", !.result = None, !.callbacks = @ + 1])
    /\ UNCHANGED <<request, registry, nextId, indexFile, files, stream,
                   lastEvent, doneCount, lateUpdate,
                   handler>>

\* run: the try block returned
Complete1(j) ==
    /\ t[j].pc = "complete1"
    /\ SetJob(j, [jobs[j] EXCEPT !.status = COMPLETE])
    /\ SetUnit(j, [t[j] EXCEPT !.pc = "complete2"])
    /\ UNCHANGED <<request, registry, nextId, indexFile, files, tracks, stream,
                   lastEvent, doneCount, lateUpdate,
                   playlistFile, handler>>

\* the final fields written through on_progress
Complete2_reports(j) ==
    /\ t[j].pc = "complete2"
    /\ SetJob(j, [on_progress(jobs[j], 100, <<"Complete", t[j].result[1].title>>)
                     EXCEPT !.result = t[j].result])
    /\ SetUnit(j, [t[j] EXCEPT !.pc = "callback", !.result = None])
    /\ UNCHANGED <<request, registry, nextId, indexFile, files, tracks, stream,
                   lastEvent, doneCount, lateUpdate,
                   playlistFile, handler>>

\* the success branch without the assignment of the result
Complete2_no_result(j) ==
    /\ t[j].pc = "complete2"
    /\ SetJob(j, [jobs[j] EXCEPT !.progress = 100,
                                 !.message = <<"Complete", t[j].result[1].title>>])
    /\ SetUnit(j, [t[j] EXCEPT !.pc = "callback", !.result = None])
    /\ UNCHANGED <<request, registry, nextId, indexFile, files, tracks, stream,
                   lastEvent, doneCount, lateUpdate,
                   playlistFile, handler>>

Complete2(j) ==
    /\ t[j].pc = "complete2"
    /\ SetJob(j, [jobs[j] EXCEPT !.progress = 100, !.result = t[j].result,
                                 !.message = <<"Complete", t[j].result[1].title>>])
    /\ SetUnit(j, [t[j] EXCEPT !.pc = "callback", !.result = None])
    /\ UNCHANGED <<request, registry, nextId, indexFile, files, tracks, stream,
                   lastEvent, doneCount, lateUpdate,
                   playlistFile, handler>>

\* an except clause for ValueError alone: any other error ends the thread
Fail1_narrow(j) ==
    /\ t[j].pc = "fail1"
    /\ IF t[j].exc = Some(<<"Audio too short">>)
       THEN /\ SetJob(j, [jobs[j] EXCEPT !.status = FAILED])
            /\ SetUnit(j, [t[j] EXCEPT !.pc = "fail2"])
       ELSE /\ SetUnit(j, [t[j] EXCEPT !.pc = "done"])
            /\ UNCHANGED <<jobs, hist,
                   handler>>
    /\ UNCHANGED <<request, registry, nextId, indexFile, files, tracks, stream,
                   lastEvent, doneCount, lateUpdate,
                   playlistFile, handler>>

\* run: the except clause
Fail1(j) ==
    /\ t[j].pc = "fail1"
    /\ SetJob(j, [jobs[j] EXCEPT !.status = FAILED])
    /\ SetUnit(j, [t[j] EXCEPT !.pc = "fail2"])
    /\ UNCHANGED <<request, registry, nextId, indexFile, files, tracks, stream,
                   lastEvent, doneCount, lateUpdate,
                   playlistFile, handler>>

\* the except clause as the end of run: the callback is not reached
Fail2_silent(j) ==
    /\ t[j].pc = "fail2"
    /\ SetJob(j, [jobs[j] EXCEPT !.error = t[j].exc, !.message = <<"Failed", t[j].exc[1]>>])
    /\ SetUnit(j, [t[j] EXCEPT !.pc = "done", !.exc = None])
    /\ UNCHANGED <<request, registry, nextId, indexFile, files, tracks, stream,
                   lastEvent, doneCount, lateUpdate,
                   playlistFile, handler>>

Fail2(j) ==
    /\ t[j].pc = "fail2"
    /\ SetJob(j, [jobs[j] EXCEPT !.error = t[j].exc, !.message = <<"Failed", t[j].exc[1]>>])
    /\ SetUnit(j, [t[j] EXCEPT !.pc = "callback", !.exc = None])
    /\ UNCHANGED <<request, registry, nextId, indexFile, files, tracks, stream,
                   lastEvent, doneCount, lateUpdate,
                   playlistFile, handler>>

\* the callback that marks the job it was given
on_complete_marks(j) ==
    /\ t[j].pc = "callback"
    /\ UNCHANGED <<tracks, playlistFile>>
    /\ SetJob(j, [jobs[j] EXCEPT !.message = <<"Added">>])
    /\ SetUnit(j, [t[j] EXCEPT !.pc = "done", !.callbacks = @ + 1])
    /\ UNCHANGED <<request, registry, nextId, indexFile, files, stream,
                   lastEvent, doneCount, lateUpdate,
                   handler>>

\* the track on_complete builds from a job's result
Track(j) ==
    [id |-> j, name |-> jobs[j].result[1].title,
     duration |-> jobs[j].result[1].duration,
     source_url |-> jobs[j].result[1].source_url]

\* what save_playlist writes for a track list
save_playlist(trs) ==
    [i \in 1..Len(trs) |->
        [id |-> trs[i].id, name |-> trs[i].name, duration |-> trs[i].duration,
         source_url |-> trs[i].source_url]]

\* download.on_complete, called by run: the file copied, the track appended
\* and the playlist saved; copy2 raises when the file is gone, and the
\* exception leaves run
on_complete(j) ==
    /\ t[j].pc = "callback"
    /\ IF jobs[j].status = COMPLETE /\ jobs[j].result # None
       THEN IF exists(files, jobs[j].result[1].filepath)
            THEN /\ tracks' = Append(tracks, Track(j))
                 /\ playlistFile' = save_playlist(tracks')
                 /\ SetUnit(j, [t[j] EXCEPT !.pc = "done", !.callbacks = @ + 1])
            ELSE /\ UNCHANGED <<tracks, playlistFile>>
                 /\ SetUnit(j, [t[j] EXCEPT !.pc = "done", !.callbacks = @ + 1,
                                            !.uncaught = TRUE])
       ELSE /\ UNCHANGED <<tracks, playlistFile>>
            /\ SetUnit(j, [t[j] EXCEPT !.pc = "done", !.callbacks = @ + 1])
    /\ UNCHANGED <<request, jobs, hist, registry, nextId, indexFile, files, stream,
                   lastEvent, doneCount, lateUpdate,
                   handler>>

Run(j) ==
    \/ RunStart(j) \/ CacheLoad(j) \/ CacheCheck(j) \/ CacheHit(j) \/ Select(j) \/ Branch(j)
    \/ DirectGet(j) \/ DirectChunk(j) \/ DirectProbe(j) \/ Unlink(j) \/ StoreSave(j)
    \/ ExtractHook(j) \/ ExtractPost(j) \/ ExtractFind(j)
    \/ Complete1(j) \/ Complete2(j) \/ Fail1(j) \/ Fail2(j) \/ on_complete(j)

\* --------------------------------------------------------------- playlist
\* the orders a client posts to /reorder: every id in some order, so that a
\* reorder by itself drops no track
Orders == {o \in [1..MaxJobs -> JobIds] : \A i, k \in 1..MaxJobs : o[i] = o[k] => i = k}

\* reorder: track_map
track_map(trs) ==
    [id \in {trs[i].id : i \in 1..Len(trs)} |->
        trs[CHOOSE i \in 1..Len(trs) :
                /\ trs[i].id = id
                /\ \A k \in 1..Len(trs) : trs[k].id = id => k <= i]]

\* reorder: the loop that builds new_tracks
RECURSIVE InOrder(_, _)
InOrder(order, map) ==
    IF order = <<>> THEN <<>>
    ELSE (IF Head(order) \in DOMAIN map THEN <<map[Head(order)]>> ELSE <<>>)
             \o InOrder(Tail(order), map)

\* reorder: the track list read and new_tracks built from it
ReorderBuild ==
    /\ handler.pc = "idle"
    /\ \E order \in Orders :
         handler' = [pc |-> "assign", new_tracks |-> InOrder(order, track_map(tracks))]
    /\ UNCHANGED <<request, jobs, hist, registry, nextId, t, indexFile, files, tracks,
                   playlistFile, stream, lastEvent, doneCount, lateUpdate>>

\* reorder: tracks = new_tracks and save_playlist
ReorderAssign ==
    /\ handler.pc = "assign"
    /\ tracks' = handler.new_tracks
    /\ playlistFile' = save_playlist(tracks')
    /\ handler' = IdleHandler
    /\ UNCHANGED <<request, jobs, hist, registry, nextId, t, indexFile, files,
                   stream, lastEvent, doneCount, lateUpdate>>

\* the orders random.shuffle can leave a list in
Shuffles(trs) ==
    {[i \in 1..Len(trs) |-> trs[p[i]]] :
        p \in {q \in [1..Len(trs) -> 1..Len(trs)] :
                  \A i, k \in 1..Len(trs) : q[i] = q[k] => i = k}}

\* randomize: the list shuffled in place and saved
Randomize ==
    /\ tracks' \in Shuffles(tracks)
    /\ playlistFile' = save_playlist(tracks')
    /\ UNCHANGED <<request, jobs, hist, registry, nextId, t, indexFile, files,
                   stream, lastEvent, doneCount, lateUpdate, handler>>

\* -------------------------------------------------------- progress stream
\* the removal that empties the registry
cleanup_job_all(reg, id) == reg \ (reg \cup {id})

cleanup_job(reg, id) == reg \ {id}

get_job(reg, id) == id \in reg

\* download_progress: a request with a non-empty list of ids
StreamStart ==
    /\ stream.pc = "idle"
    /\ \E ids \in SUBSET ((1..(nextId - 1)) \cup {UnknownId}) :
         /\ ids # {}
         /\ stream' = [stream EXCEPT !.pc = "while", !.ids = ids, !.pending = ids]
    /\ UNCHANGED <<request, jobs, hist, registry, nextId, t, indexFile, files, tracks,
                   lastEvent, doneCount, lateUpdate,
                   playlistFile, handler>>

\* generate: the test of the while loop; after the loop the "complete" event
StreamWhile ==
    /\ stream.pc = "while"
    /\ IF stream.pending # {}
       THEN /\ stream' = [stream EXCEPT !.pc = "for", !.todo = stream.pending]
            /\ UNCHANGED doneCount
       ELSE /\ stream' = [stream EXCEPT !.pc = "done"]
            /\ doneCount' = doneCount + 1
    /\ UNCHANGED <<request, jobs, hist, registry, nextId, t, indexFile, files, tracks,
                   lastEvent, lateUpdate,
                   playlistFile, handler>>

AfterItem(todo) == IF todo = {} THEN "while" ELSE "for"

\* the pass that reports a missing job and keeps its id pending
StreamPoll_keeps ==
    /\ stream.pc = "for"
    /\ \E id \in stream.todo :
         LET todo == stream.todo \ {id}
         IN  /\ IF id \notin registry
                THEN /\ stream' = [stream EXCEPT !.todo = todo,
                                                 !.pc = IF todo = {} THEN "while" ELSE "for"]
                     /\ lastEvent' = [lastEvent EXCEPT ![id] = "not_found"]
                ELSE /\ stream' = [stream EXCEPT !.todo = todo, !.cur = id,
                                                 !.snap = jobs[id].status, !.pc = "check"]
                     /\ lastEvent' = lastEvent
             /\ lateUpdate' = (lateUpdate \/ doneCount > 0)
    /\ UNCHANGED <<request, jobs, hist, registry, nextId, t, indexFile, files, tracks,
                   doneCount,
                   playlistFile, handler>>

\* the fields of a job that an update event carries
Snapshot(job) ==
    [status |-> job.status, progress |-> job.progress, message |-> job.message,
     error |-> job.error,
     result |-> IF job.result = None THEN None
                ELSE Some([title |-> job.result[1].title,
                           duration |-> job.result[1].duration])]

Recorded(id) == id \in DOMAIN stream.prev

\* generate: get_job for the next id of the pass, and the update event
StreamPoll ==
    /\ stream.pc = "for"
    /\ \E id \in stream.todo :
         LET todo == stream.todo \ {id}
         IN  /\ IF ~get_job(registry, id)
                THEN /\ stream' = [stream EXCEPT !.pending = @ \ {id}, !.todo = todo,
                                                 !.pc = AfterItem(todo)]
                     /\ lastEvent' = [lastEvent EXCEPT ![id] = "not_found"]
                ELSE /\ stream' =
                          [stream EXCEPT
                              !.todo = todo, !.cur = id,
                              !.snap = jobs[id].status, !.pc = "check",
                              !.prev = IF Recorded(id)
                                       THEN [@ EXCEPT ![id] = Some(Snapshot(jobs[id]))]
                                       ELSE @,
                              !.stale = @ \/ (/\ Recorded(id)
                                              /\ stream.prev[id] = Some(Snapshot(jobs[id])))]
                     /\ lastEvent' = lastEvent
             /\ lateUpdate' = (lateUpdate \/ doneCount > 0)
    /\ UNCHANGED <<request, jobs, hist, registry, nextId, t, indexFile, files, tracks, doneCount,
                   playlistFile, handler>>

\* the pass that drops a finished job from its list and leaves the registry
StreamCheck_no_cleanup ==
    /\ stream.pc = "check"
    /\ LET id == stream.cur
       IN  IF jobs[id].status \in Terminal
           THEN /\ stream' = [stream EXCEPT !.pending = @ \ {id}, !.cur = UnknownId,
                                            !.snap = "none",
                                            !.pc = AfterItem(stream.todo)]
                /\ lastEvent' = [lastEvent EXCEPT ![id] = stream.snap]
           ELSE /\ stream' = [stream EXCEPT !.cur = UnknownId, !.snap = "none",
                                            !.pc = AfterItem(stream.todo)]
                /\ lastEvent' = lastEvent
    /\ UNCHANGED <<request, jobs, hist, registry, nextId, t, indexFile, files, tracks,
                   doneCount, lateUpdate,
                   playlistFile, handler>>

\* the pass that drops and cleans up every job it has reported
StreamCheck_always ==
    /\ stream.pc = "check"
    /\ LET id == stream.cur
       IN  /\ stream' = [stream EXCEPT !.pending = @ \ {id}, !.cur = UnknownId,
                                       !.snap = "none",
                                       !.pc = AfterItem(stream.todo)]
           /\ registry' = cleanup_job(registry, id)
           /\ lastEvent' = [lastEvent EXCEPT ![id] = stream.snap]
    /\ UNCHANGED <<request, jobs, hist, nextId, t, indexFile, files, tracks,
                   doneCount, lateUpdate,
                   playlistFile, handler>>

\* generate: after the event, the test of the job's status and the cleanup
StreamCheck ==
    /\ stream.pc = "check"
    /\ LET id == stream.cur
       IN  IF jobs[id].status \in Terminal
           THEN /\ stream' = [stream EXCEPT !.pending = @ \ {id}, !.cur = UnknownId,
                                            !.snap = "none",
                                            !.pc = AfterItem(stream.todo)]
                /\ registry' = cleanup_job(registry, id)
                /\ lastEvent' = [lastEvent EXCEPT ![id] = stream.snap]
           ELSE /\ stream' = [stream EXCEPT !.cur = UnknownId, !.snap = "none",
                                            !.pc = AfterItem(stream.todo)]
                /\ registry' = registry
                /\ lastEvent' = lastEvent
    /\ UNCHANGED <<request, jobs, hist, nextId, t, indexFile, files, tracks,
                   doneCount, lateUpdate,
                   playlistFile, handler>>

Stream == StreamStart \/ StreamWhile \/ StreamPoll \/ StreamCheck

\* ------------------------------------------------------------ the system
Next ==
    \/ \E url \in Urls : start_download(url)
    \/ \E j \in JobIds : Run(j)
    \/ Stream

Spec == Init /\ [][Next]_vars

\* every background unit is a thread of its own and the generator is driven
\* by the server until it ends
FairSpec ==
    /\ Spec
    /\ \A j \in JobIds : WF_vars(Run(j))
    /\ WF_vars(StreamWhile \/ StreamPoll \/ StreamCheck)

\* ================================================================ claims
Rank(status) ==
    CASE status = PENDING -> 1
      [] status = DOWNLOADING -> 2
      [] status = PROCESSING -> 3
      [] OTHER -> 4

Submitted(j) == t[j].pc # "unborn"
Finished(j) == t[j].pc \in {"callback", "done"}

\* C1: the status values a job takes, in order, start with PENDING, only move
\* forward through PENDING, DOWNLOADING, PROCESSING and then COMPLETE or FAILED,
\* and never go from PENDING straight to a terminal value; the status a poller
\* reads is the last of them.
StatusMovesForward ==
    \A j \in JobIds :
        Submitted(j) =>
            /\ hist[j] # <<>>
            /\ hist[j][1] = PENDING
            /\ hist[j][Len(hist[j])] = jobs[j].status
            /\ \A i \in 1..(Len(hist[j]) - 1) :
                  /\ Rank(hist[j][i]) < Rank(hist[j][i + 1])
                  /\ ~(hist[j][i] = PENDING /\ hist[j][i + 1] \in Terminal)

\* a job went through all four values while the stream was polling it, and
\* another failed without ever being in PROCESSING
StatusMovesForwardWitness ==
    /\ \E j \in JobIds : hist[j] = <<PENDING, DOWNLOADING, PROCESSING, COMPLETE>>
                          /\ lastEvent[j] = COMPLETE
    /\ \E j \in JobIds : hist[j] = <<PENDING, DOWNLOADING, FAILED>>

\* C2: once a job's status is COMPLETE or FAILED no step of any actor changes it.
TerminalIsFinal ==
    [][\A j \in JobIds :
          jobs[j].status \in Terminal => jobs'[j].status = jobs[j].status]_vars

\* a terminal job after its unit wrote the last fields, ran the completion
\* callback and ended, and after the stream reported and removed it
TerminalIsFinalWitness ==
    \E j \in JobIds :
        /\ jobs[j].status \in Terminal
        /\ t[j].pc = "done"
        /\ j \notin registry
        /\ lastEvent[j] \in Terminal

\* C3: every submitted job eventually is COMPLETE or FAILED.
EveryJobTerminates ==
    \A j \in JobIds : Submitted(j) ~> (jobs[j].status \in Terminal)

EveryJobTerminatesWitness ==
    /\ \E j \in JobIds : jobs[j].status = COMPLETE /\ t[j].pc = "done"
    /\ \E j \in JobIds : jobs[j].status = FAILED /\ t[j].pc = "done"

\* C4: a stream that was started ends; it emits the "complete" event once, as
\* its last event, and then every id it was given has been reported not_found
\* or had its job found in a terminal state.
StreamEnds ==
    /\ [](/\ doneCount <= 1
          /\ ~lateUpdate
          /\ (stream.pc = "done") = (doneCount = 1)
          /\ stream.pc = "done" =>
                /\ stream.pending = {}
                /\ \A id \in stream.ids :
                      \/ lastEvent[id] = "not_found"
                      \/ lastEvent[id] # "none" /\ jobs[id].status \in Terminal)
    /\ (stream.pc # "idle") ~> (stream.pc = "done")

\* the stream ended for a set of three ids, one of them unknown
StreamEndsWitness ==
    /\ stream.pc = "done"
    /\ doneCount = 1
    /\ UnknownId \in stream.ids
    /\ \E i, j \in stream.ids : i # j /\ lastEvent[i] = COMPLETE /\ lastEvent[j] = FAILED

\* C5: the last update event emitted for an id the stream dropped shows
\* COMPLETE, FAILED or not_found.
LastUpdateIsTerminal ==
    \A id \in JobIds \cup {UnknownId} :
        lastEvent[id] \in {"none", "not_found"} \cup Terminal

\* C6 as stated: after a resolution succeeded, and while its file exists, a
\* lookup of the same URL returns the title, duration and file path of its result.
CachedAfterSuccess ==
    \A j \in JobIds :
        (/\ Finished(j)
         /\ jobs[j].status = COMPLETE
         /\ exists(files, jobs[j].result[1].filepath))
        => get_cached(jobs[j].url, indexFile, files) = jobs[j].result

StoredEntry(j) ==
    CacheEntry(jobs[j].url, jobs[j].result[1].title, jobs[j].result[1].duration,
               jobs[j].result[1].filepath)

\* C6 amended: while the persisted index holds the entry a successful
\* resolution stored and the file exists, a lookup of the URL returns that
\* resolution's result; and a resolution that hits the cache calls no network
\* collaborator, writes no file and no index, reports 100 percent with the
\* "using cached" message and completes with the entry's values.
CacheHitWhenEntryKept ==
    \A j \in JobIds :
        /\ (/\ Finished(j)
            /\ jobs[j].status = COMPLETE
            /\ exists(files, jobs[j].result[1].filepath)
            /\ cache_key(j) \in DOMAIN load_cache_index(indexFile)
            /\ load_cache_index(indexFile)[cache_key(j)] = StoredEntry(j))
           => get_cached(jobs[j].url, indexFile, files) = jobs[j].result
        /\ t[j].hit =>
              /\ t[j].calls = {}
              /\ t[j].created = {}
              /\ ~t[j].saved
              /\ t[j].pc \in {"hit", "complete1", "complete2", "callback", "done"}
              /\ t[j].pc = "complete1" =>
                    /\ jobs[j].progress = 100
                    /\ jobs[j].message = <<"Using cached", t[j].result[1].title>>
              /\ Finished(j) => jobs[j].status = COMPLETE /\ jobs[j].progress = 100

\* a second resolution of a URL hit the cache after the first had stored it,
\* and completed with the first one's result
CacheHitWitness ==
    \E i, j \in JobIds :
        /\ i # j
        /\ jobs[i].url = jobs[j].url
        /\ t[i].saved /\ Finished(i)
        /\ t[j].hit /\ Finished(j)
        /\ jobs[j].result = jobs[i].result
        /\ get_cached(jobs[i].url, indexFile, files) = jobs[i].result

\* C7: when get_cached finds the key in the index it loaded and the file
\* missing, it returns no result, and the index it has saved lacks the key and
\* holds every other entry of the index it loaded.
SelfHealing ==
    [][\A j \in JobIds :
          (/\ t[j].pc = "gc_check"
           /\ t'[j].pc # "gc_check"
           /\ ~exists(files, t[j].index[cache_key(j)].filename))
          => /\ t'[j].pc = "select"
             /\ t'[j].result = None
             /\ ~t'[j].hit
             /\ indexFile' # None
             /\ cache_key(j) \notin DOMAIN indexFile'[1]
             /\ \A k \in DOMAIN t[j].index \ {cache_key(j)} :
                   k \in DOMAIN indexFile'[1] /\ indexFile'[1][k] = t[j].index[k]]_vars

\* the stale entry of the audio URL was evicted and the video URL's entry kept
SelfHealingWitness ==
    \E j \in JobIds :
        /\ t[j].evicted
        /\ t[j].pc = "select"
        /\ indexFile # None
        /\ DOMAIN indexFile[1] = {url_hash(VideoUrl)}
        /\ indexFile[1][url_hash(VideoUrl)] = OldIndex[url_hash(VideoUrl)]

SharesKey(j) == \E i \in JobIds \ {j} : Submitted(i) /\ cache_key(i) = cache_key(j)

\* C8: in both strategies a resolution whose file lasts less than 1.0 second,
\* or whose duration is unknown, saves no index and ends FAILED with the
\* too-short error; the files it produced are gone (unless another job
\* resolving the same key has written them again).
ShortFileRejected ==
    \A j \in JobIds :
        t[j].short =>
            /\ ~t[j].saved
            /\ t[j].pc \in {"unlink", "fail1", "fail2", "callback", "done"}
            /\ t[j].pc = "fail1" => t[j].exc = Some(TooShort)
            /\ t[j].pc \in {"fail2", "callback", "done"} => jobs[j].status = FAILED
            /\ Finished(j) => jobs[j].error = Some(TooShort)
            /\ (t[j].pc # "unlink" /\ ~SharesKey(j)) =>
                  \A f \in t[j].created : ~exists(files, f)

\* a direct download and an extraction were both rejected as too short
ShortFileRejectedWitness ==
    /\ \E j \in JobIds : t[j].short /\ t[j].pc = "done" /\ "fetch" \in t[j].calls
                          /\ jobs[j].error = Some(TooShort)
    /\ \E j \in JobIds : t[j].short /\ t[j].pc = "done" /\ "extract" \in t[j].calls
                          /\ jobs[j].error = Some(TooShort) /\ ~SharesKey(j)

\* C9: when a job is FAILED every file its resolution created in the cache
\* directory has been removed.
FailedLeavesNoFile ==
    \A j \in JobIds :
        jobs[j].status = FAILED => \A f \in t[j].created : ~exists(files, f)

\* C10: the progress field of a job never decreases from one write to the
\* next, except at the transition into DOWNLOADING.
ProgressNeverDecreases ==
    [][\A j \in JobIds :
          \/ jobs'[j].progress >= jobs[j].progress
          \/ jobs[j].status = PENDING /\ jobs'[j].status = DOWNLOADING]_vars

\* C11: the progress of every job lies between 0 and 100 inclusive, also when
\* the bytes downloaded exceed the announced or estimated total.
ProgressInRange ==
    \A j \in JobIds : jobs[j].progress >= 0 /\ jobs[j].progress <= 100

\* C12: start_download puts a new job, PENDING and with no field written, in
\* the registry under an id no job had before, with its unit started but not
\* yet run; a get_job with that id right after finds it; no other job, unit
\* or registry slot is touched, also when the URL is one submitted before.
SubmitInsertsFresh ==
    /\ [](/\ registry \subseteq 1..(nextId - 1)
          /\ \A j \in JobIds : Submitted(j) <=> j < nextId)
    /\ [][nextId' # nextId =>
            LET id == nextId
            IN  /\ nextId' = nextId + 1
                /\ ~Submitted(id)
                /\ ~get_job(registry, id)
                /\ hist[id] = <<>>
                /\ get_job(registry', id)
                /\ jobs'[id] = NewJob(Head(request))
                /\ hist'[id] = <<PENDING>>
                /\ t'[id] = [IdleUnit EXCEPT !.pc = "run"]
                /\ \A i \in JobIds \ {id} :
                      /\ jobs'[i] = jobs[i]
                      /\ t'[i] = t[i]
                      /\ get_job(registry', i) <=> get_job(registry, i)]_vars

\* a URL was submitted a second time after its first job completed: both jobs
\* are in the registry, the new one as it was inserted
SubmitInsertsFreshWitness ==
    \E i, j \in JobIds :
        /\ i # j
        /\ jobs[i].url = jobs[j].url
        /\ get_job(registry, i) /\ get_job(registry, j)
        /\ jobs[i].status = COMPLETE /\ Finished(i)
        /\ jobs[j] = NewJob(jobs[i].url)
        /\ t[j].pc = "run"

\* C13: on_complete is called exactly once for every submitted job, by the
\* job's own unit, after the status is COMPLETE or FAILED and the result or the
\* error has been stored, on failure as on success.
CallbackOnce ==
    /\ [](\A j \in JobIds : t[j].callbacks = (IF t[j].pc = "done" THEN 1 ELSE 0))
    /\ [][\A j \in JobIds :
            t'[j].callbacks # t[j].callbacks =>
                /\ t[j].pc = "callback"
                /\ jobs[j].status \in Terminal
                /\ jobs[j].status = COMPLETE => jobs[j].result # None
                /\ jobs[j].status = FAILED => jobs[j].error # None
                /\ \A i \in JobIds \ {j} : t'[i] = t[i]
                /\ stream' = stream]_vars
    /\ \A j \in JobIds : Submitted(j) ~> (t[j].callbacks = 1)

\* the callback ran for a job that completed, adding its track, and for one
\* that failed
CallbackOnceWitness ==
    /\ \E j \in JobIds : jobs[j].status = COMPLETE /\ t[j].callbacks = 1 /\ Len(tracks) = 1
    /\ \E j \in JobIds : jobs[j].status = FAILED /\ t[j].callbacks = 1

\* C14: the fields of a job are written only by steps of the job's own unit
\* before it calls on_complete; the callback, the stream and the other units
\* never change them.
SingleWriter ==
    [][\A j \in JobIds :
          (Submitted(j) /\ jobs'[j] # jobs[j]) =>
              /\ t'[j] # t[j]
              /\ t[j].pc \notin {"callback", "done"}
              /\ stream' = stream
              /\ registry' = registry
              /\ \A i \in JobIds \ {j} : t'[i] = t[i] /\ jobs'[i] = jobs[i]]_vars

\* a job completed while the stream was reading it, its callback ran, and the
\* stream reported it
SingleWriterWitness ==
    \E j \in JobIds :
        /\ jobs[j].status = COMPLETE /\ jobs[j].result # None
        /\ t[j].callbacks = 1
        /\ Len(tracks) = 1
        /\ lastEvent[j] = PROCESSING

\* C15: a submitted job that is not COMPLETE or FAILED is in the registry, and
\* a job leaves the registry only by the cleanup_job of the stream, when its
\* status is COMPLETE or FAILED.
RemovedOnlyWhenTerminal ==
    /\ [](\A j \in JobIds :
             (Submitted(j) /\ jobs[j].status \notin Terminal) => get_job(registry, j))
    /\ [][\A j \in JobIds :
            (get_job(registry, j) /\ ~get_job(registry', j)) =>
                /\ stream.pc = "check"
                /\ stream.cur = j
                /\ jobs[j].status \in Terminal]_vars

\* the stream removed a finished job and polled, without removing it, a job
\* that is still being resolved
RemovedOnlyWhenTerminalWitness ==
    \E i, j \in JobIds :
        /\ jobs[i].status \in Terminal /\ ~get_job(registry, i)
        /\ jobs[j].status = PROCESSING /\ get_job(registry, j)
        /\ stream.ids = {i, j}
        /\ stream.pc = "while"

\* C17: after a unit's last write a COMPLETE job has progress 100, a result
\* and no error, and a FAILED job an error and no result; no job ever has both
\* a result and an error.
FinalFields ==
    \A j \in JobIds :
        /\ ~(jobs[j].result # None /\ jobs[j].error # None)
        /\ Finished(j) =>
              /\ jobs[j].status \in Terminal
              /\ jobs[j].status = COMPLETE =>
                    /\ jobs[j].progress = 100
                    /\ jobs[j].result # None
                    /\ jobs[j].error = None
              /\ jobs[j].status = FAILED =>
                    /\ jobs[j].error # None
                    /\ jobs[j].result = None

\* one job ended COMPLETE and another FAILED with its progress short of 100
FinalFieldsWitness ==
    /\ \E j \in JobIds : Finished(j) /\ jobs[j].status = COMPLETE
    /\ \E j \in JobIds : Finished(j) /\ jobs[j].status = FAILED /\ jobs[j].progress = 50

\* the entry a unit is about to store
NewEntry(j) == CacheEntry(jobs[j].url, t[j].title[1], t[j].duration, t[j].out[1])

\* C18: the index a resolution saves is the index it loaded plus its own
\* entry: entries saved by others since the load are lost, and when nobody
\* saved since the load every entry of the persisted index is kept.
StoreKeepsWhatItLoaded ==
    [][\A j \in JobIds :
          (t[j].pc = "st_save" /\ t'[j].pc # "st_save") =>
              /\ indexFile' # None
              /\ DOMAIN indexFile'[1] = DOMAIN t[j].index \cup {cache_key(j)}
              /\ indexFile'[1][cache_key(j)] = NewEntry(j)
              /\ \A k \in DOMAIN t[j].index \ {cache_key(j)} :
                    indexFile'[1][k] = t[j].index[k]
              /\ t[j].index = load_cache_index(indexFile) =>
                    \A k \in DOMAIN load_cache_index(indexFile) \ {cache_key(j)} :
                        /\ k \in DOMAIN indexFile'[1]
                        /\ indexFile'[1][k] = load_cache_index(indexFile)[k]]_vars

\* two resolutions of different URLs both stored their entry and the persisted
\* index holds only one of them
LostUpdateWitness ==
    \E i, j \in JobIds :
        /\ cache_key(i) # cache_key(j)
        /\ t[i].saved /\ Finished(i) /\ jobs[i].status = COMPLETE
        /\ t[j].saved /\ Finished(j) /\ jobs[j].status = COMPLETE
        /\ indexFile # None
        /\ cache_key(i) \notin DOMAIN indexFile[1]
        /\ cache_key(j) \in DOMAIN indexFile[1]

\* two URLs that differ at most in the value of the tracking parameter
SameButTracking(u1, u2) == u1.host = u2.host /\ u1.path = u2.path

TrackingIgnored ==
    \A u1, u2 \in AllUrls :
        SameButTracking(u1, u2) =>
            /\ normalize_url(u1) = normalize_url(u2)
            /\ url_hash(u1) = url_hash(u2)

\* C16 as stated: URLs that differ only in tracking values have the same
\* normalized form and the same key, and after one of them was resolved
\* successfully (and while its file exists) a lookup of any of them hits.
TrackingVariantsHit ==
    /\ TrackingIgnored
    /\ \A j \in JobIds :
          (/\ Finished(j)
           /\ jobs[j].status = COMPLETE
           /\ exists(files, jobs[j].result[1].filepath))
          => \A u \in AllUrls :
                SameButTracking(u, jobs[j].url) => get_cached(u, indexFile, files) # None

\* C16 amended: URLs that differ only in tracking values have the same
\* normalized form and the same key, and while the persisted index holds the
\* entry a successful resolution of one of them stored and the file exists, a
\* lookup of any of them returns that resolution's result.
TrackingVariantsShareEntry ==
    /\ TrackingIgnored
    /\ \A j \in JobIds :
          (/\ Finished(j)
           /\ jobs[j].status = COMPLETE
           /\ exists(files, jobs[j].result[1].filepath)
           /\ cache_key(j) \in DOMAIN load_cache_index(indexFile)
           /\ load_cache_index(indexFile)[cache_key(j)] = StoredEntry(j))
          => \A u \in AllUrls :
                SameButTracking(u, jobs[j].url)
                    => get_cached(u, indexFile, files) = jobs[j].result

\* the URL was resolved and stored under one tracking value, and its
\* resolution under the other value hit that entry
TrackingVariantsWitness ==
    \E i, j \in JobIds :
        /\ jobs[i].url # jobs[j].url
        /\ SameButTracking(jobs[i].url, jobs[j].url)
        /\ t[i].saved /\ Finished(i)
        /\ t[j].hit /\ Finished(j)
        /\ jobs[j].result = jobs[i].result
        /\ jobs[j].result[1].source_url = jobs[i].url

\* C19: after a cache miss the direct download is chosen exactly when the URL
\* is no platform URL, the classifier accepts it and the transformer returned,
\* without raising, a non-empty link other than its input; otherwise the
\* extractor is chosen. A unit never runs both, and for a platform URL it calls
\* neither the classifier nor the transformer.
StrategyChoice ==
    /\ [](\A j \in JobIds :
             /\ ~("fetch" \in t[j].calls /\ "extract" \in t[j].calls)
             /\ is_youtube(jobs[j].url) => t[j].calls \cap {"classify", "transform"} = {}
             /\ "transform" \in t[j].calls =>
                   "classify" \in t[j].calls /\ is_audio_url(jobs[j].url)
             /\ t[j].direct_url # None => "transform" \in t[j].calls)
    /\ [][\A j \in JobIds :
            (t[j].pc = "branch" /\ t'[j].pc # "branch") =>
                LET returned == t[j].direct_url
                    direct == /\ ~is_youtube(jobs[j].url)
                              /\ is_audio_url(jobs[j].url)
                              /\ returned \notin {None, Some("empty"), Some("same")}
                IN  /\ direct => t'[j].pc = "d_get"
                    /\ ~direct => t'[j].pc = "f_hook"]_vars

\* the direct download ran for the audio URL, and the extractor for the page
\* the classifier rejected
StrategyChoiceWitness ==
    /\ \E j \in JobIds : t[j].calls = {"classify", "transform", "fetch", "title"}
    /\ \E j \in JobIds : jobs[j].url = PageUrl /\ t[j].calls = {"classify", "extract"}

Stage(pc) ==
    CASE pc = "unborn" -> 0
      [] pc = "run" -> 1
      [] pc = "gc_load" -> 2
      [] pc = "gc_check" -> 3
      [] pc \in {"hit", "select"} -> 4
      [] pc = "branch" -> 5
      [] pc \in {"d_get", "f_hook"} -> 6
      [] pc \in {"d_chunk", "f_post"} -> 7
      [] pc \in {"d_probe", "f_find"} -> 8
      [] pc \in {"unlink", "st_save"} -> 9
      [] pc \in {"complete1", "fail1"} -> 10
      [] pc \in {"complete2", "fail2"} -> 11
      [] pc = "callback" -> 12
      [] OTHER -> 13

DirectPcs == {"d_get", "d_chunk", "d_probe"}
ExtractPcs == {"f_hook", "f_post", "f_find"}

\* C20: a unit only moves forward through run and download_url, so no step
\* of a resolution is taken a second time; a unit in the direct strategy
\* never enters the extractor, and a unit that called the direct fetch never
\* calls the extractor; after FAILED a unit calls no collaborator.
SingleAttempt ==
    /\ [](\A j \in JobIds : "fetch" \in t[j].calls => "extract" \notin t[j].calls)
    /\ [][\A j \in JobIds :
            /\ t'[j].pc # t[j].pc => Stage(t'[j].pc) > Stage(t[j].pc)
            /\ t[j].pc \in DirectPcs => t'[j].pc \notin ExtractPcs
            /\ (t[j].pc = "unlink" /\ "fetch" \in t[j].calls) => t'[j].pc \in {"unlink", "fail1"}
            /\ t[j].pc = "fail1" => t'[j].pc \in {"fail1", "fail2"}
            /\ jobs[j].status = FAILED =>
                  /\ t'[j].calls = t[j].calls
                  /\ jobs'[j].status = FAILED]_vars

\* two direct downloads failed, one on a stream error and one as too short,
\* and neither called the extractor
SingleAttemptWitness ==
    /\ \E j \in JobIds : /\ Finished(j) /\ jobs[j].status = FAILED
                          /\ jobs[j].error = Some(<<"stream error">>)
                          /\ t[j].calls = {"classify", "transform", "fetch"}
    /\ \E j \in JobIds : /\ Finished(j) /\ jobs[j].status = FAILED
                          /\ jobs[j].error = Some(TooShort)
                          /\ t[j].calls = {"classify", "transform", "fetch"}

\* C22 as stated: a job that missed the cache and is COMPLETE has saved the
\* index with its entry, and a job that is FAILED has written no index.
EntryOnlyOnSuccess ==
    \A j \in JobIds :
        /\ (jobs[j].status = COMPLETE /\ ~t[j].hit) => t[j].saved
        /\ jobs[j].status = FAILED => (~t[j].saved /\ ~t[j].evicted)

\* C22 amended: an entry is stored only by a resolution that goes on to
\* COMPLETE, in a save made before the status is written, holding the file
\* name, title and duration of the result; a resolution that fails stores no
\* entry, and the only index write it can have made is the lookup's removal of
\* a stale entry.
EntryPersistedBeforeComplete ==
    /\ [](\A j \in JobIds :
             /\ (jobs[j].status = COMPLETE /\ ~t[j].hit) => t[j].saved
             /\ jobs[j].status = FAILED => ~t[j].saved
             /\ t[j].hit => ~t[j].saved)
    /\ [][/\ \A j \in JobIds :
              /\ (t'[j].saved /\ ~t[j].saved) =>
                    /\ t[j].pc = "st_save"
                    /\ jobs[j].status \notin Terminal
                    /\ indexFile' # None
                    /\ cache_key(j) \in DOMAIN indexFile'[1]
                    /\ indexFile'[1][cache_key(j)] =
                          CacheEntry(jobs[j].url, t'[j].result[1].title,
                                     t'[j].result[1].duration, t'[j].result[1].filepath)
              /\ (jobs'[j].status = COMPLETE /\ jobs[j].status # COMPLETE /\ ~t[j].hit) =>
                    t[j].saved /\ t[j].result # None
          /\ indexFile' # indexFile =>
                \E i \in JobIds :
                    \/ t[i].pc = "st_save" /\ t'[i].saved
                    \/ /\ t[i].pc = "gc_check" /\ t'[i].evicted
                       /\ indexFile' = Some(IndexWithout(t[i].index, cache_key(i)))]_vars

\* one resolution stored its entry and completed; another removed a stale
\* entry and then failed
EntryPersistedWitness ==
    /\ \E j \in JobIds : /\ Finished(j) /\ jobs[j].status = COMPLETE /\ t[j].saved
                          /\ get_cached(jobs[j].url, indexFile, files) = jobs[j].result
    /\ \E j \in JobIds : Finished(j) /\ jobs[j].status = FAILED /\ t[j].evicted

\* C21: the cache lookup raises no error, whatever the index file holds: no
\* unit leaves get_cached by an exception and no job fails with its error.
LookupNeverFails ==
    \A j \in JobIds :
        /\ t[j].exc \notin {Some(TypeError), Some(KeyError)}
        /\ jobs[j].error \notin {Some(TypeError), Some(KeyError)}

\* C23: cleanup_job deletes the slot of the id it is given and nothing else:
\* a get_job for the id finds nothing from then on, no job record, unit, file
\* or other slot changes, and an id that is not in the registry leaves it as
\* it is; the unit of a job removed while it runs still reaches COMPLETE or
\* FAILED and calls on_complete.
RemoveOnlyDropsSlot ==
    /\ [](\A id \in (JobIds \cup {UnknownId}) \ registry :
             cleanup_job(registry, id) = registry)
    /\ [][/\ \A j \in JobIds :
              (get_job(registry, j) /\ ~get_job(registry', j)) =>
                  /\ registry' = registry \ {j}
                  /\ jobs' = jobs /\ t' = t /\ files' = files
                  /\ indexFile' = indexFile /\ tracks' = tracks
          /\ \A j \in JobIds :
              (Submitted(j) /\ ~get_job(registry, j)) => ~get_job(registry', j)]_vars
    /\ \A j \in JobIds :
          Submitted(j) ~> (jobs[j].status \in Terminal /\ t[j].callbacks = 1)

\* one job was removed and is still downloading; the other was removed too,
\* and has completed and added its track
RemoveOnlyDropsSlotWitness ==
    \E i, j \in JobIds :
        /\ ~get_job(registry, i) /\ t[i].pc = "d_chunk" /\ jobs[i].status = DOWNLOADING
        /\ ~get_job(registry, j) /\ jobs[j].status = COMPLETE /\ t[j].callbacks = 1
        /\ Len(tracks) > 0

\* C24: no run ends by an exception of the completion callback that nothing
\* caught.
CallbackErrorHandled ==
    \A j \in JobIds : ~t[j].uncaught

\* C25: when the stream has emitted its "complete" event none of the ids it
\* was given is in the registry, and a job leaves the registry only if its id
\* was given to the stream, with no job or unit changed by the removal.
StreamLeavesNoJob ==
    /\ [](stream.pc = "done" => \A id \in stream.ids : ~get_job(registry, id))
    /\ [][\A j \in JobIds :
            (get_job(registry, j) /\ ~get_job(registry', j)) =>
                /\ j \in stream.ids
                /\ jobs' = jobs
                /\ t' = t
                /\ \A i \in JobIds \ {j} : get_job(registry', i) <=> get_job(registry, i)]_vars

\* the stream ended for one job and an unknown id; the job is gone from the
\* registry and the other job, which was not given to it, is still there
StreamLeavesNoJobWitness ==
    \E i, j \in JobIds :
        /\ i # j
        /\ stream.pc = "done"
        /\ stream.ids = {i, UnknownId}
        /\ ~get_job(registry, i)
        /\ get_job(registry, j)
        /\ jobs[j].status \in Terminal

\* C27: the track list changes only in a step of on_complete, taken by a
\* unit whose job already is COMPLETE with its result stored, in a later step
\* than the one that wrote the status.
TrackAfterComplete ==
    [][tracks' # tracks =>
          \E j \in JobIds :
              /\ t[j].pc = "callback" /\ t'[j].pc = "done"
              /\ jobs[j].status = COMPLETE
              /\ jobs[j].result # None
              /\ jobs' = jobs
              /\ tracks' = Append(tracks, Track(j))]_vars

\* the stream reported the job COMPLETE, removed it and ended, and the track
\* list is still empty because the job's unit has not run the callback
CallbackLagWitness ==
    \E j \in JobIds :
        /\ stream.pc = "done"
        /\ j \in stream.ids
        /\ lastEvent[j] = COMPLETE
        /\ ~get_job(registry, j)
        /\ t[j].pc \in {"complete2", "callback"}
        /\ tracks = <<>>

\* the result of a job whose status is COMPLETE: held by the unit until it is
\* assigned to the job
ResultOf(j) == IF t[j].result # None THEN t[j].result[1] ELSE jobs[j].result[1]

\* C29: while a job is COMPLETE and its callback has not returned, the file
\* of its result is there and completely written; and the file of an entry a
\* finished job stored and the index still holds exists.
ResultFileIntact ==
    \A j \in JobIds :
        /\ (jobs[j].status = COMPLETE /\ t[j].pc \in {"complete2", "callback"})
              => files[ResultOf(j).filepath] = "full"
        /\ (/\ Finished(j) /\ jobs[j].status = COMPLETE /\ t[j].saved
            /\ cache_key(j) \in DOMAIN load_cache_index(indexFile)
            /\ load_cache_index(indexFile)[cache_key(j)] = StoredEntry(j))
              => exists(files, jobs[j].result[1].filepath)

\* the update event recorded for a job
Event(id) == stream.prev[id][1]

\* C26: the stream emits no update event equal to the one it emitted last for
\* the same id.
NoRepeatedSnapshot == ~stream.stale

\* C28: an update event that shows COMPLETE carries a result and progress
\* 100, and one that shows FAILED carries an error.
SnapshotConsistent ==
    \A id \in DOMAIN stream.prev :
        stream.prev[id] # None =>
            /\ Event(id).status = COMPLETE =>
                  Event(id).result # None /\ Event(id).progress = 100
            /\ Event(id).status = FAILED => Event(id).error # None

TracksOf(j) == {i \in 1..Len(tracks) : tracks[i].id = j}

\* C30: a job that ended COMPLETE has exactly one track in the playlist and a
\* job that ended FAILED has none, whatever reorder, randomize and the other
\* job's callback did meanwhile.
OneTrackPerCompleteJob ==
    \A j \in JobIds :
        t[j].pc = "done" =>
            /\ jobs[j].status = COMPLETE => Cardinality(TracksOf(j)) = 1
            /\ jobs[j].status = FAILED => TracksOf(j) = {}

TypeOK ==
    /\ \A j \in JobIds : jobs[j].status \in JobStatus \cup {"unborn"}
    /\ registry \subseteq JobIds
    /\ nextId \in 1..(MaxJobs + 1)

NextResolve ==
    \/ \E url \in Urls : start_download(url)
    \/ \E j \in JobIds : Run(j)

SpecResolve == InitResolve /\ [][NextResolve]_vars

\* cleanup_job called by a client of the registry, for any id at any time
Remove(id) ==
    /\ registry' = cleanup_job(registry, id)
    /\ UNCHANGED <<request, jobs, hist, nextId, t, indexFile, files, tracks, stream,
                   lastEvent, doneCount, lateUpdate,
                   playlistFile, handler>>

NextRemove ==
    \/ \E url \in Urls : start_download(url)
    \/ \E j \in JobIds : Run(j)
    \/ \E id \in JobIds \cup {UnknownId} : Remove(id)

SpecRemove == Init /\ [][NextRemove]_vars

FairRemove == SpecRemove /\ \A j \in JobIds : WF_vars(Run(j))

\* the jobs of Spec with clients that reorder and shuffle the playlist
NextPlaylist ==
    \/ \E url \in Urls : start_download(url)
    \/ \E j \in JobIds : Run(j)
    \/ ReorderBuild
    \/ ReorderAssign
    \/ Randomize

SpecPlaylist == Init /\ [][NextPlaylist]_vars

\* the jobs of Spec with a stream whose update events are recorded
SpecPoll == InitPoll /\ [][Next]_vars

SpecCorrupt == InitCorrupt /\ [][NextResolve]_vars

NextVariants ==
    \/ \E url \in VariantUrls : start_download(url)
    \/ \E j \in JobIds : Run(j)

SpecVariants == InitVariants /\ [][NextVariants]_vars

====
